---- MODULE Spec2Model ----
(***************************************************************************)
(* Model of the ETL reconciliation backend: the cleaning functions, the    *)
(* lookup classifier (add_activation_status), the Master BOM updater       *)
(* (process_updates), the processing preview and the request handlers of   *)
(* backend/main.py working on one entry of FileManager.files_storage.      *)
(*                                                                         *)
(* A string is a sequence of one-character strings.  A null cell (NaN) is  *)
(* the one-element sequence <<"NaN">>, which no text can equal.  A table   *)
(* (DataFrame) is [cols |-> sequence of column names, rows |-> sequence of *)
(* [idx |-> row label, c |-> function from column name to cell]].  All     *)
(* columns are text columns (dtype object).                                *)
(***************************************************************************)
EXTENDS Integers, Sequences, FiniteSets, TLC

VARIABLES sheets, processed_sheets, original_master_backup, backup_metadata,
          processed_master, resp, hist, fn

vars == <<sheets, processed_sheets, original_master_backup, backup_metadata,
          processed_master, resp, hist, fn>>

-----------------------------------------------------------------------------
(* Bounds *)

MaxMasterRows == 1
MaxTargetRows == 1
MaxFnMasterRows == 2
MaxFnTargetRows == 2
MaxColumns == 2
MaxRequests == 2
MaxUploads == 8
MaxClock == 39
TickHours == 13
MaxHeaders == 2
MaxHeaderRows == 1

-----------------------------------------------------------------------------
(* Strings *)

NaN == <<"NaN">>
EMPTY == <<>>
STR_nan == <<"n", "a", "n">>
STR_None == <<"N", "o", "n", "e">>
STR_NaN == <<"N", "a", "N">>

KEYCOL == <<"Y", "A", "Z", "A", "K", "I", " ", "P", "N">>
YAZAKI_PN_US == <<"Y", "A", "Z", "A", "K", "I", "_", "P", "N">>
ACTIVATION_STATUS ==
    <<"A", "C", "T", "I", "V", "A", "T", "I", "O", "N", "_", "S", "T", "A", "T", "U", "S">>
LCOL == <<"S", "T">>
NOCOL == <<"Z", "Z">>

ST_X == <<"X">>
ST_D == <<"D">>
ST_0 == <<"0">>
NOT_FOUND == <<"N", "O", "T", "_", "F", "O", "U", "N", "D">>
MISSING_KEY == <<"M", "I", "S", "S", "I", "N", "G", "_", "K", "E", "Y">>

LowerLetters ==
    <<"a", "b", "c", "d", "e", "f", "g", "h", "i", "j", "k", "l", "m",
      "n", "o", "p", "q", "r", "s", "t", "u", "v", "w", "x", "y", "z">>
UpperLetters ==
    <<"A", "B", "C", "D", "E", "F", "G", "H", "I", "J", "K", "L", "M",
      "N", "O", "P", "Q", "R", "S", "T", "U", "V", "W", "X", "Y", "Z">>
Digits == {"0", "1", "2", "3", "4", "5", "6", "7", "8", "9"}

Range(s) == {s[i] : i \in DOMAIN s}

UpperChar(ch) ==
    IF \E i \in 1..26 : LowerLetters[i] = ch
    THEN UpperLetters[CHOOSE i \in 1..26 : LowerLetters[i] = ch]
    ELSE ch

\* str.upper()
StrUpper(s) == [i \in 1..Len(s) |-> UpperChar(s[i])]

IsSpace(ch) == ch = " "

RECURSIVE LStrip(_)
LStrip(s) == IF s # <<>> /\ IsSpace(s[1]) THEN LStrip(Tail(s)) ELSE s

RECURSIVE RStrip(_)
RStrip(s) ==
    IF s # <<>> /\ IsSpace(s[Len(s)]) THEN RStrip(SubSeq(s, 1, Len(s) - 1)) ELSE s

\* str.strip()
StrStrip(s) == RStrip(LStrip(s))

RECURSIVE Filter(_, _)
Filter(s, keep) ==
    IF s = <<>> THEN <<>>
    ELSE (IF s[1] \in keep THEN <<s[1]>> ELSE <<>>) \o Filter(Tail(s), keep)

RECURSIVE Remove(_, _)
Remove(s, drop) ==
    IF s = <<>> THEN <<>>
    ELSE (IF s[1] \in drop THEN <<>> ELSE <<s[1]>>) \o Remove(Tail(s), drop)

\* str.replace(' ', '_')
ReplaceSpace(s) == [i \in 1..Len(s) |-> IF s[i] = " " THEN "_" ELSE s[i]]

\* pd.isna / pd.notna on a cell
IsNa(v) == v = NaN

\* str(x) on a cell, and Series.astype(str): a null becomes the text 'nan'
PyStr(v) == IF IsNa(v) THEN STR_nan ELSE v

-----------------------------------------------------------------------------
(* Tables *)

HasCol(df, col) == col \in Range(df.cols)

ColSet(df) == Range(df.cols)

Labels(df) == {df.rows[i].idx : i \in DOMAIN df.rows}

\* df[col] = df[col].apply(f): f applied to every cell of one column
MapCol(df, col, F(_)) ==
    [df EXCEPT !.rows = [i \in DOMAIN @ |-> [@[i] EXCEPT !.c[col] = F(@)]]]

\* df.rename(columns={old: new})
RenameCol(df, old, new) ==
    LET ncols == [i \in DOMAIN df.cols |-> IF df.cols[i] = old THEN new ELSE df.cols[i]]
    IN [cols |-> ncols,
        rows |-> [i \in DOMAIN df.rows |->
                    [idx |-> df.rows[i].idx,
                     c |-> [col \in Range(ncols) |->
                              df.rows[i].c[IF col = new THEN old ELSE col]]]]]

\* df[cols]: same rows; every requested label selects each column that bears it
RECURSIVE Selected(_, _)
Selected(cols, wanted) ==
    IF wanted = <<>> THEN <<>>
    ELSE SelectSeq(cols, LAMBDA col : col = wanted[1]) \o Selected(cols, Tail(wanted))

Reorder(df, ncols) == [df EXCEPT !.cols = Selected(df.cols, ncols)]

\* no label occurs twice
UniqueNames(cols) == \A i, j \in DOMAIN cols : cols[i] = cols[j] => i = j

-----------------------------------------------------------------------------
(* backend/core/cleaning.py *)

\* one cell of an object column under astype(str) and replace(['nan','None','NaN'], '')
FixCell(v) ==
    LET s == PyStr(v) IN IF s \in {STR_nan, STR_None, STR_NaN} THEN EMPTY ELSE s

fix_arrow_compatibility(df) ==
    [df EXCEPT !.rows = [i \in DOMAIN @ |->
        [@[i] EXCEPT !.c = [col \in DOMAIN @ |-> FixCell(@[col])]]]]

\* col.strip().upper().replace(' ', '_')
NormCol(col) == ReplaceSpace(StrUpper(StrStrip(col)))

\* str(x) if notna else '', then upper(), then drop every char outside A-Z0-9
CleanKey(v) ==
    Filter(StrUpper(IF IsNa(v) THEN EMPTY ELSE v), Range(UpperLetters) \cup Digits)

\* variant: rows whose key is empty after cleaning are kept
clean_master_yazaki_keep_empty(df) ==
    LET yazaki_cols == SelectSeq(df.cols, LAMBDA col : NormCol(col) = YAZAKI_PN_US)
        df1 == IF yazaki_cols # <<>> THEN RenameCol(df, yazaki_cols[1], KEYCOL) ELSE df
        df2 == IF HasCol(df1, KEYCOL) THEN MapCol(df1, KEYCOL, CleanKey) ELSE df1
    IN fix_arrow_compatibility(df2)

\* the rename leaves two columns named YAZAKI PN: df['YAZAKI PN'] is then a
\* frame, on which .apply(lambda) or .str raises
clean_master_yazaki_raises(df) ==
    LET yazaki_cols == SelectSeq(df.cols, LAMBDA col : NormCol(col) = YAZAKI_PN_US)
    IN /\ yazaki_cols # <<>>
       /\ yazaki_cols[1] # KEYCOL
       /\ HasCol(df, KEYCOL)

clean_master_yazaki(df) ==
    LET yazaki_cols == SelectSeq(df.cols, LAMBDA col : NormCol(col) = YAZAKI_PN_US)
        df1 == IF yazaki_cols # <<>> THEN RenameCol(df, yazaki_cols[1], KEYCOL) ELSE df
        df2 == IF HasCol(df1, KEYCOL)
               THEN LET cleaned == MapCol(df1, KEYCOL, CleanKey)
                    IN [cleaned EXCEPT !.rows =
                           SelectSeq(@, LAMBDA r : Len(r.c[KEYCOL]) > 0)]
               ELSE df1
    IN fix_arrow_compatibility(df2)

\* str(x) if notna else '', then re.sub(r"['\"+ ]+", "", x).strip()
GenericCell(v) ==
    StrStrip(Remove(IF IsNa(v) THEN EMPTY ELSE v, {"'", "\"", "+", " "}))

\* two standardized names coincide: df[col] is then a frame, on which
\* .apply(lambda) or .dtype raises
clean_generic_sheet_raises(df) ==
    ~UniqueNames([i \in DOMAIN df.cols |-> NormCol(df.cols[i])])

clean_generic_sheet(df) ==
    LET ncols == [i \in DOMAIN df.cols |-> NormCol(df.cols[i])]
        swapped == IF Len(ncols) >= 2
                   THEN <<ncols[2], ncols[1]>> \o SubSeq(ncols, 3, Len(ncols))
                   ELSE ncols
        OldOf(col) == df.cols[CHOOSE i \in DOMAIN ncols : ncols[i] = col]
        df1 == [cols |-> swapped,
                rows |-> [i \in DOMAIN df.rows |->
                            [idx |-> df.rows[i].idx,
                             c |-> [col \in Range(ncols) |->
                                      GenericCell(df.rows[i].c[OldOf(col)])]]]]
    IN fix_arrow_compatibility(df1)

prepare_target_sheet(df) ==
    LET df1 == IF HasCol(df, YAZAKI_PN_US) THEN RenameCol(df, YAZAKI_PN_US, KEYCOL) ELSE df
    IN IF HasCol(df1, KEYCOL)
       THEN LET k == CHOOSE i \in DOMAIN df1.cols :
                         /\ df1.cols[i] = KEYCOL
                         /\ \A j \in 1..(i - 1) : df1.cols[j] # KEYCOL
            IN Reorder(df1, <<KEYCOL>> \o SubSeq(df1.cols, 1, k - 1)
                                     \o SubSeq(df1.cols, k + 1, Len(df1.cols)))
       ELSE df1

-----------------------------------------------------------------------------
(* backend/core/preprocessing.py *)

LowerChar(ch) ==
    IF \E i \in 1..26 : UpperLetters[i] = ch
    THEN LowerLetters[CHOOSE i \in 1..26 : UpperLetters[i] = ch]
    ELSE ch

\* str.lower()
StrLower(s) == [i \in 1..Len(s) |-> LowerChar(s[i])]

\* str.split(sep)
RECURSIVE SplitOn(_, _)
SplitOn(s, sep) ==
    IF \A i \in DOMAIN s : s[i] # sep THEN <<s>>
    ELSE LET i == CHOOSE i \in DOMAIN s : s[i] = sep /\ \A j \in 1..(i - 1) : s[j] # sep
         IN <<SubSeq(s, 1, i - 1)>> \o SplitOn(SubSeq(s, i + 1, Len(s)), sep)

\* sep.join(parts)
RECURSIVE JoinWith(_, _)
JoinWith(parts, sep) ==
    IF parts = <<>> THEN <<>>
    ELSE IF Len(parts) = 1 THEN parts[1]
    ELSE parts[1] \o <<sep>> \o JoinWith(Tail(parts), sep)

\* str.startswith / str.endswith
StartsWith(s, t) == Len(t) <= Len(s) /\ SubSeq(s, 1, Len(t)) = t

EndsWith(s, t) == Len(t) <= Len(s) /\ SubSeq(s, Len(s) - Len(t) + 1, Len(s)) = t

\* SequenceMatcher.find_longest_match without junk: the longest block
\* a[i..i+k-1] = b[j..j+k-1], the one starting earliest in a, and of those
\* the one starting earliest in b; <<0, 0, 0>> when no element matches
LongestMatch(a, b) ==
    LET blocks == {t \in (DOMAIN a) \X (DOMAIN b) \X (1..Len(a)) :
                     /\ t[1] + t[3] - 1 <= Len(a)
                     /\ t[2] + t[3] - 1 <= Len(b)
                     /\ SubSeq(a, t[1], t[1] + t[3] - 1) = SubSeq(b, t[2], t[2] + t[3] - 1)}
    IN IF blocks = {} THEN <<0, 0, 0>>
       ELSE CHOOSE t \in blocks :
              \A u \in blocks :
                 \/ t[3] > u[3]
                 \/ (t[3] = u[3] /\ t[1] < u[1])
                 \/ (t[3] = u[3] /\ t[1] = u[1] /\ t[2] <= u[2])

\* sum of the sizes of SequenceMatcher.get_matching_blocks()
RECURSIVE MatchCount(_, _)
MatchCount(a, b) ==
    LET t == LongestMatch(a, b)
    IN IF t[3] = 0 THEN 0
       ELSE t[3] + MatchCount(SubSeq(a, 1, t[1] - 1), SubSeq(b, 1, t[2] - 1))
                 + MatchCount(SubSeq(a, t[1] + t[3], Len(a)), SubSeq(b, t[2] + t[3], Len(b)))

\* SequenceMatcher(None, a, b).ratio() as the fraction n/d: 2.0*M/T, and
\* 1.0 when both strings are empty
ratio(a, b) ==
    IF Len(a) + Len(b) = 0 THEN [n |-> 1, d |-> 1]
    ELSE [n |-> 2 * MatchCount(a, b), d |-> Len(a) + Len(b)]

ZeroScore == [n |-> 0, d |-> 1]

\* x > y on scores
ScoreGt(x, y) == x.n * y.d > y.n * x.d

\* score >= 0.9
ScoreAtLeast90(x) == 10 * x.n >= 9 * x.d

\* the loop "for col in columns" of the structural branch
StructuralBest(input_name, columns, prefix, suffix) ==
    LET F[i \in 0..Len(columns)] ==
          IF i = 0 THEN [match |-> input_name, confidence |-> ZeroScore]
          ELSE LET col == columns[i]
                   score == ratio(StrLower(input_name), StrLower(col))
               IN IF /\ StartsWith(StrUpper(col), StrUpper(prefix))
                     /\ EndsWith(StrUpper(col), StrUpper(suffix))
                     /\ ScoreAtLeast90(score)
                     /\ ScoreGt(score, F[i - 1].confidence)
                  THEN [match |-> col, confidence |-> score]
                  ELSE F[i - 1]
    IN F[Len(columns)]

\* the loop "for col in columns" of the fallback
FallbackBest(input_name, columns) ==
    LET F[i \in 0..Len(columns)] ==
          IF i = 0 THEN [match |-> input_name, confidence |-> ZeroScore]
          ELSE LET score == ratio(StrLower(input_name), StrLower(columns[i]))
               IN IF ScoreGt(score, F[i - 1].confidence)
                  THEN [match |-> columns[i], confidence |-> score]
                  ELSE F[i - 1]
    IN F[Len(columns)]

\* variant: the structural branch is skipped
suggest_column_fallback_only(input_name, columns) ==
    IF StrStrip(input_name) = EMPTY
    THEN [match |-> IF columns # <<>> THEN columns[1] ELSE EMPTY, confidence |-> ZeroScore]
    ELSE FallbackBest(input_name, columns)

\* variant: an empty input name is answered with the input name itself
suggest_column_empty_gives_input(input_name, columns) ==
    IF StrStrip(input_name) = EMPTY
    THEN [match |-> input_name, confidence |-> ZeroScore]
    ELSE FallbackBest(input_name, columns)

\* Returns [match, confidence]
suggest_column(input_name, columns) ==
    IF StrStrip(input_name) = EMPTY
    THEN [match |-> IF columns # <<>> THEN columns[1] ELSE EMPTY, confidence |-> ZeroScore]
    ELSE LET parts == SplitOn(input_name, "_")
             structural ==
                 IF Len(parts) >= 4
                 THEN StructuralBest(input_name, columns,
                                     JoinWith(SubSeq(parts, 1, 3), "_"), parts[Len(parts)])
                 ELSE [match |-> input_name, confidence |-> ZeroScore]
         IN IF Len(parts) >= 4 /\ ScoreGt(structural.confidence, ZeroScore)
            THEN structural
            ELSE FallbackBest(input_name, columns)

\* variant: of the rows sharing a key the last one is kept
DropDuplicates_last(df, key_col) ==
    LET Keep(i) == \A j \in (i + 1)..Len(df.rows) :
                       df.rows[j].c[key_col] # df.rows[i].c[key_col]
        F[i \in 0..Len(df.rows)] ==
            IF i = 0 THEN <<>>
            ELSE IF Keep(i) THEN Append(F[i - 1], df.rows[i]) ELSE F[i - 1]
    IN [df EXCEPT !.rows = F[Len(df.rows)]]

\* master_df.drop_duplicates(subset=[key_col], keep='first')
DropDuplicates(df, key_col) ==
    LET Keep(i) == \A j \in 1..(i - 1) : df.rows[j].c[key_col] # df.rows[i].c[key_col]
        F[i \in 0..Len(df.rows)] ==
            IF i = 0 THEN <<>>
            ELSE IF Keep(i) THEN Append(F[i - 1], df.rows[i]) ELSE F[i - 1]
    IN [df EXCEPT !.rows = F[Len(df.rows)]]

\* pd.Series(lookup_series.values, index=master_clean[key_col]).to_dict()
LookupDict(master_clean, key_col, lookup_col) ==
    [k \in {master_clean.rows[i].c[key_col] : i \in DOMAIN master_clean.rows} |->
        LET first == CHOOSE j \in DOMAIN master_clean.rows : master_clean.rows[j].c[key_col] = k
        IN master_clean.rows[first].c[lookup_col]]

get_status(lookup_dict, key) ==
    IF IsNa(key) THEN MISSING_KEY
    ELSE IF key \in DOMAIN lookup_dict
         THEN (IF ~IsNa(lookup_dict[key]) THEN lookup_dict[key] ELSE ST_0)
         ELSE NOT_FOUND

\* df.insert(1, name, values)
InsertCol(df, name, values) ==
    [cols |-> <<df.cols[1], name>> \o Tail(df.cols),
     rows |-> [i \in DOMAIN df.rows |->
                 [idx |-> df.rows[i].idx,
                  c |-> [col \in ColSet(df) \cup {name} |->
                           IF col = name THEN values[i] ELSE df.rows[i].c[col]]]]]

\* df['ACTIVATION_STATUS'].value_counts().to_dict()
ValueCounts(df, col) ==
    [v \in {df.rows[i].c[col] : i \in DOMAIN df.rows} \ {NaN} |->
        Cardinality({i \in DOMAIN df.rows : df.rows[i].c[col] = v})]

\* Returns [err, df, stats]; err is "KeyError" for an absent column (indexing
\* a frame by a missing name), "ValueError" when insert finds the column present.
add_activation_status(master_df, target_df, key_col, lookup_col) ==
    IF ~HasCol(master_df, key_col) \/ ~HasCol(master_df, lookup_col)
       \/ ~HasCol(target_df, key_col)
    THEN [err |-> "KeyError", df |-> target_df, stats |-> << >>]
    ELSE IF HasCol(target_df, ACTIVATION_STATUS)
    THEN [err |-> "ValueError", df |-> target_df, stats |-> << >>]
    ELSE
      LET master_clean == DropDuplicates(master_df, key_col)
          lookup_dict == LookupDict(master_clean, key_col, lookup_col)
          statuses == [i \in DOMAIN target_df.rows |->
                         get_status(lookup_dict, target_df.rows[i].c[key_col])]
          df == InsertCol(target_df, ACTIVATION_STATUS, statuses)
      IN [err |-> "none",
          df |-> df,
          stats |-> [master_records |-> Len(master_df.rows),
                     master_unique_records |-> Len(master_clean.rows),
                     target_records |-> Len(target_df.rows),
                     lookup_dict_size |-> Cardinality(DOMAIN lookup_dict),
                     duplicates_removed |-> Len(master_df.rows) - Len(master_clean.rows),
                     mapping_results |-> ValueCounts(df, ACTIVATION_STATUS),
                     total_processed |-> Len(df.rows)]]

-----------------------------------------------------------------------------
(* backend/core/master_updater.py *)

Min(S) == CHOOSE x \in S : \A y \in S : x <= y

Max(S) == CHOOSE x \in S : \A y \in S : x >= y

\* element-wise == of a column against a scalar: a null equals nothing
CellEq(a, b) == ~IsNa(a) /\ ~IsNa(b) /\ a = b

\* variant: MISSING_KEY rows are taken into the NOT_FOUND group
StatusRecords_missing_inserted(target_df, status) ==
    SelectSeq(target_df.rows,
              LAMBDA r : \/ CellEq(r.c[ACTIVATION_STATUS], status)
                         \/ (status = NOT_FOUND /\ r.c[ACTIVATION_STATUS] = MISSING_KEY))

\* processed_target[processed_target['ACTIVATION_STATUS'] == status]
StatusRecords(target_df, status) ==
    SelectSeq(target_df.rows, LAMBDA r : CellEq(r.c[ACTIVATION_STATUS], status))

\* positions of master_df[master_df[key_column] == yazaki_pn]
MatchPositions(master_df, key_column, yazaki_pn) ==
    {i \in DOMAIN master_df.rows : CellEq(master_df.rows[i].c[key_column], yazaki_pn)}

\* master_df.loc[label, col] = val (a missing column is created, null elsewhere)
LocSetCell(df, label, col, val) ==
    LET ncols == IF HasCol(df, col) THEN df.cols ELSE Append(df.cols, col)
    IN [cols |-> ncols,
        rows |-> [i \in DOMAIN df.rows |->
                    [idx |-> df.rows[i].idx,
                     c |-> [k \in Range(ncols) |->
                              IF df.rows[i].idx = label /\ k = col THEN val
                              ELSE IF k \in DOMAIN df.rows[i].c THEN df.rows[i].c[k]
                              ELSE NaN]]]]

\* master_df.loc[label] = new_record: an existing label is overwritten,
\* a new label is appended
LocSetRow(df, label, new_record) ==
    IF label \in Labels(df)
    THEN [df EXCEPT !.rows = [i \in DOMAIN @ |->
              IF @[i].idx = label THEN [idx |-> label, c |-> new_record] ELSE @[i]]]
    ELSE [df EXCEPT !.rows = Append(@, [idx |-> label, c |-> new_record])]

\* variant: the ACTIVATION_STATUS value is copied like any other column
_prepare_new_record_with_status(source_record, master_df) ==
    [col \in ColSet(master_df) |->
        IF col \in DOMAIN source_record THEN source_record[col] ELSE EMPTY]

_prepare_new_record(source_record, master_df) ==
    [col \in ColSet(master_df) |->
        IF col \in DOMAIN source_record /\ col # ACTIVATION_STATUS
        THEN source_record[col]
        ELSE EMPTY]

\* variant: a record without a matching row is counted as updated
_update_existing_records_counts_unmatched(master_df, records_to_update, lookup_column, key_column) ==
    LET F[i \in 0..Len(records_to_update)] ==
          IF i = 0 THEN [err |-> "none", master |-> master_df, count |-> 0]
          ELSE LET p == F[i - 1]
                   record == records_to_update[i].c
               IN IF p.err # "none" THEN p
                  ELSE IF key_column \notin DOMAIN record \/ ~HasCol(p.master, key_column)
                  THEN [p EXCEPT !.err = "KeyError"]
                  ELSE LET m == MatchPositions(p.master, key_column, record[key_column])
                       IN IF m # {}
                          THEN [err |-> "none",
                                master |-> LocSetCell(p.master, p.master.rows[Min(m)].idx,
                                                      lookup_column, ST_D),
                                count |-> p.count + 1]
                          ELSE [p EXCEPT !.count = @ + 1]
    IN F[Len(records_to_update)]

\* variant: the last matching row is updated instead of the first
_update_existing_records_last(master_df, records_to_update, lookup_column, key_column) ==
    LET F[i \in 0..Len(records_to_update)] ==
          IF i = 0 THEN [err |-> "none", master |-> master_df, count |-> 0]
          ELSE LET p == F[i - 1]
                   record == records_to_update[i].c
               IN IF p.err # "none" THEN p
                  ELSE IF key_column \notin DOMAIN record \/ ~HasCol(p.master, key_column)
                  THEN [p EXCEPT !.err = "KeyError"]
                  ELSE LET m == MatchPositions(p.master, key_column, record[key_column])
                       IN IF m # {}
                          THEN [err |-> "none",
                                master |-> LocSetCell(p.master, p.master.rows[Max(m)].idx,
                                                      lookup_column, ST_D),
                                count |-> p.count + 1]
                          ELSE p
    IN F[Len(records_to_update)]

\* Returns [err, master, count]; master is the frame as left by the loop.
_update_existing_records(master_df, records_to_update, lookup_column, key_column) ==
    LET F[i \in 0..Len(records_to_update)] ==
          IF i = 0 THEN [err |-> "none", master |-> master_df, count |-> 0]
          ELSE LET p == F[i - 1]
                   record == records_to_update[i].c
               IN IF p.err # "none" THEN p
                  ELSE IF key_column \notin DOMAIN record \/ ~HasCol(p.master, key_column)
                  THEN [p EXCEPT !.err = "KeyError"]
                  ELSE LET m == MatchPositions(p.master, key_column, record[key_column])
                       IN IF m # {}
                          THEN [err |-> "none",
                                master |-> LocSetCell(p.master, p.master.rows[Min(m)].idx,
                                                      lookup_column, ST_D),
                                count |-> p.count + 1]
                          ELSE p
    IN F[Len(records_to_update)]

\* Returns [err, master, duplicates, count].
_handle_zero_status(master_df, records_to_check, key_column) ==
    LET F[i \in 0..Len(records_to_check)] ==
          IF i = 0
          THEN [err |-> "none", master |-> master_df, duplicates |-> <<>>, count |-> 0]
          ELSE LET p == F[i - 1]
                   record == records_to_check[i].c
               IN IF p.err # "none" THEN p
                  ELSE IF key_column \notin DOMAIN record \/ ~HasCol(p.master, key_column)
                  THEN [p EXCEPT !.err = "KeyError"]
                  ELSE LET m == MatchPositions(p.master, key_column, record[key_column])
                       IN IF m # {}
                          THEN [p EXCEPT !.duplicates =
                                  Append(@, [YAZAKI_PN |-> record[key_column],
                                             Master_Record |-> p.master.rows[Min(m)].c,
                                             Target_Record |-> record])]
                          ELSE [p EXCEPT
                                  !.master = LocSetRow(p.master, Len(p.master.rows),
                                                       _prepare_new_record(record, p.master)),
                                  !.count = @ + 1]
    IN F[Len(records_to_check)]

\* Returns [err, master, count].  The debug line after the insertion reads
\* record[key_column], so a record without that column fails after its row
\* was written.
_insert_new_records(master_df, records_to_insert, key_column) ==
    LET F[i \in 0..Len(records_to_insert)] ==
          IF i = 0 THEN [err |-> "none", master |-> master_df, count |-> 0]
          ELSE LET p == F[i - 1]
                   record == records_to_insert[i].c
                   inserted == LocSetRow(p.master, Len(p.master.rows),
                                         _prepare_new_record(record, p.master))
               IN IF p.err # "none" THEN p
                  ELSE [err |-> IF key_column \in DOMAIN record THEN "none" ELSE "KeyError",
                        master |-> inserted,
                        count |-> p.count + 1]
    IN F[Len(records_to_insert)]

NoStats ==
    [updated_count |-> 0, inserted_count |-> 0, duplicates_count |-> 0,
     skipped_count |-> 0, duplicates |-> <<>>]

\* One round of the loop "for status in [...]" on the accumulator
\* [err, master, stats, trace]; trace keeps updated_master as it is after
\* each round.
ProcessStatus(acc, target_df, status, lookup_column, key_column) ==
    LET status_records == StatusRecords(target_df, status)
        Done(e, m, st) ==
            [err |-> e, master |-> m, stats |-> st, trace |-> Append(acc.trace, m)]
    IN IF acc.err # "none" THEN acc
       ELSE IF Len(status_records) = 0 THEN Done("none", acc.master, acc.stats)
       ELSE IF status = ST_X
       THEN Done("none", acc.master,
                 [acc.stats EXCEPT !.skipped_count = @ + Len(status_records)])
       ELSE IF status = ST_D
       THEN LET u == _update_existing_records(acc.master, status_records,
                                              lookup_column, key_column)
            IN Done(u.err, u.master, [acc.stats EXCEPT !.updated_count = @ + u.count])
       ELSE IF status = ST_0
       THEN LET z == _handle_zero_status(acc.master, status_records, key_column)
            IN Done(z.err, z.master,
                    [acc.stats EXCEPT !.duplicates = @ \o z.duplicates,
                                      !.duplicates_count = @ + Len(z.duplicates),
                                      !.inserted_count = @ + z.count])
       ELSE IF status = NOT_FOUND
       THEN LET n == _insert_new_records(acc.master, status_records, key_column)
            IN Done(n.err, n.master, [acc.stats EXCEPT !.inserted_count = @ + n.count])
       ELSE Done("none", acc.master, acc.stats)

StatusOrder == <<ST_X, ST_D, ST_0, NOT_FOUND>>

\* Returns [err, master, stats, trace]: err "ValueError" when the target has
\* no ACTIVATION_STATUS column, "KeyError" when a record or the master lacks
\* the key column; master is the local copy updated_master.
process_updates(master_df, target_df, lookup_column, key_column) ==
    IF ~HasCol(target_df, ACTIVATION_STATUS)
    THEN [err |-> "ValueError", master |-> master_df, stats |-> NoStats, trace |-> <<>>]
    ELSE LET F[i \in 0..Len(StatusOrder)] ==
               IF i = 0
               THEN [err |-> "none", master |-> master_df, stats |-> NoStats, trace |-> <<>>]
               ELSE ProcessStatus(F[i - 1], target_df, StatusOrder[i],
                                  lookup_column, key_column)
         IN F[Len(StatusOrder)]

\* the loop of process_updates run over the status groups in another order
ProcessInOrder(master_df, target_df, lookup_column, key_column, order) ==
    IF ~HasCol(target_df, ACTIVATION_STATUS)
    THEN [err |-> "ValueError", master |-> master_df, stats |-> NoStats, trace |-> <<>>]
    ELSE LET F[i \in 0..Len(order)] ==
               IF i = 0
               THEN [err |-> "none", master |-> master_df, stats |-> NoStats, trace |-> <<>>]
               ELSE ProcessStatus(F[i - 1], target_df, order[i], lookup_column, key_column)
         IN F[Len(order)]

\* the orders in which the four status groups can be taken
StatusOrders ==
    {order \in [1..Len(StatusOrder) -> Range(StatusOrder)] :
        \A i, j \in DOMAIN order : i # j => order[i] # order[j]}

-----------------------------------------------------------------------------
(* backend/core/processing_preview.py *)

\* the methods class DataProcessor defines
DataProcessorMethods == {"suggest_column", "add_activation_status", "get_column_suggestions"}

\* generate_preview copies its inputs and calls processor.perform_lookup;
\* an attribute the class does not define raises AttributeError, which the
\* except clause logs and re-raises, so no statistics are produced.
generate_preview(master_df, target_df, lookup_column, key_column) ==
    IF "perform_lookup" \notin DataProcessorMethods
    THEN [err |-> "AttributeError", statistics |-> << >>]
    ELSE LET r == add_activation_status(master_df, target_df, lookup_column, key_column)
         IN [err |-> r.err, statistics |-> << >>]

-----------------------------------------------------------------------------
(* backend/core/file_handler.py: one entry of files_storage.  An optional   *)
(* value (a key that may be absent from a dict) is <<>> or <<value>>.       *)

MS == "Master"
TS == "Target"

get_sheet(sheet_name) == sheets[sheet_name]

get_processed_sheet(sheet_name) ==
    IF processed_sheets[sheet_name] # <<>>
    THEN processed_sheets[sheet_name][1]
    ELSE get_sheet(sheet_name)

update_sheet(processed, sheet_name, dataframe) ==
    [processed EXCEPT ![sheet_name] = <<dataframe>>]

(* files_storage as a whole: the entries in insertion order, each with its  *)
(* id and its upload_time in hours.                                          *)

max_files == 5
max_age_hours == 24

(* sorted(files_storage.items(), key=upload_time): the positions of the     *)
(* entries, oldest first; equal times keep their insertion order.            *)
SortedByUploadTime(files) ==
    LET Before(p, q) == \/ files[p].upload_time < files[q].upload_time
                        \/ files[p].upload_time = files[q].upload_time /\ p < q
    IN [i \in 1..Len(files) |->
           CHOOSE p \in 1..Len(files) :
               Cardinality({q \in 1..Len(files) : Before(q, p)}) = i - 1]

files_to_remove(files, current_time) ==
    IF Len(files) <= max_files
    THEN {}
    ELSE LET aged == {p \in 1..Len(files) :
                         current_time - files[p].upload_time > max_age_hours}
             sorted_files == SortedByUploadTime(files)
             additional_removals == Len(files) - Cardinality(aged) - max_files
         IN IF Len(files) - Cardinality(aged) > max_files
            THEN aged \cup {sorted_files[i] : i \in 1..additional_removals}
            ELSE aged

_remove_file_from_cache(files, positions) ==
    LET kept[i \in 0..Len(files)] ==
            IF i = 0 THEN <<>>
            ELSE IF i \in positions THEN kept[i - 1]
            ELSE Append(kept[i - 1], files[i])
    IN kept[Len(files)]

_cleanup_old_files(files, current_time) ==
    _remove_file_from_cache(files, files_to_remove(files, current_time))

save_uploaded_file(files, file_id, loaded, current_time) ==
    LET kept == _cleanup_old_files(files, current_time)
    IN IF loaded
       THEN Append(kept, [file_id |-> file_id, upload_time |-> current_time])
       ELSE kept

-----------------------------------------------------------------------------
(* backend/main.py: request handlers *)

Response(op, code) == [op |-> op, code |-> code, rollback_available |-> "-"]

\* except ValueError -> 404, except Exception -> 500
ErrCode(err) == IF err = "ValueError" THEN 404 ELSE 500

Count(df, P(_)) == Cardinality({i \in DOMAIN df.rows : P(df.rows[i])})

\* value_counts(dropna=False) folded into the four buckets X, D, 0, OTHER
Distribution(df, column_name) ==
    [X |-> Count(df, LAMBDA r : r.c[column_name] = ST_X),
     D |-> Count(df, LAMBDA r : r.c[column_name] = ST_D),
     Zero |-> Count(df, LAMBDA r : r.c[column_name] = ST_0),
     Other |-> Count(df, LAMBDA r : r.c[column_name] \notin {ST_X, ST_D, ST_0})]

clean_data ==
    LET master_cleaned == clean_master_yazaki(get_sheet(MS))
        target_cleaned == prepare_target_sheet(clean_generic_sheet(get_sheet(TS)))
    IN /\ processed_sheets' =
             update_sheet(update_sheet(processed_sheets, MS, master_cleaned),
                          TS, target_cleaned)
       /\ resp' = Response("clean", IF HasCol(master_cleaned, KEYCOL) THEN 200 ELSE 500)
       /\ UNCHANGED <<sheets, original_master_backup, backup_metadata,
                      processed_master, hist, fn>>

perform_lookup(key_column, lookup_column) ==
    LET r == add_activation_status(get_processed_sheet(MS), get_processed_sheet(TS),
                                   key_column, lookup_column)
    IN /\ processed_sheets' =
             IF r.err = "none" THEN update_sheet(processed_sheets, TS, r.df)
             ELSE processed_sheets
       /\ resp' = Response("lookup", IF r.err = "none" THEN 200 ELSE ErrCode(r.err))
       /\ UNCHANGED <<sheets, original_master_backup, backup_metadata,
                      processed_master, hist, fn>>

\* variant: the frame is stored whether or not process_updates raised
CommitUpdates_always(processed, r) == update_sheet(processed, MS, r.master)

\* what process_master_updates leaves in processed_sheets
CommitUpdates(processed, r) ==
    IF r.err = "none" THEN update_sheet(processed, MS, r.master) ELSE processed

process_master_updates(lookup_column) ==
    LET r == process_updates(get_processed_sheet(MS), get_processed_sheet(TS),
                             lookup_column, KEYCOL)
    IN /\ Len(r.master.rows) <= MaxMasterRows + MaxTargetRows
       /\ processed_sheets' = CommitUpdates(processed_sheets, r)
       /\ processed_master' = IF r.err = "none" THEN <<r.master>> ELSE processed_master
       /\ resp' = Response("process_updates", IF r.err = "none" THEN 200 ELSE ErrCode(r.err))
       /\ UNCHANGED <<sheets, original_master_backup, backup_metadata, hist, fn>>

preview_processing_changes(lookup_column, key_column) ==
    LET r == generate_preview(get_sheet(MS), get_sheet(TS), lookup_column, key_column)
    IN /\ resp' = Response("preview", IF r.err = "none" THEN 200 ELSE 500)
       /\ UNCHANGED <<sheets, processed_sheets, original_master_backup, backup_metadata,
                      processed_master, hist, fn>>

\* master_df_copy after the key column went through astype(str).str.strip();
\* this frame is what the handler keeps as original_master_df
PreexistingOriginal(master_df) ==
    MapCol(master_df, KEYCOL, LAMBDA v : StrStrip(PyStr(v)))

\* master_df_copy.loc[items_to_update, column_name] = 'D'
PreexistingUpdated(master_df, target_df, column_name) ==
    LET target_yazaki_pns ==
            {StrStrip(PyStr(target_df.rows[i].c[KEYCOL])) : i \in DOMAIN target_df.rows}
        copy == PreexistingOriginal(master_df)
        ToUpdate(r) == /\ r.c[KEYCOL] \notin target_yazaki_pns
                       /\ StrStrip(PyStr(r.c[column_name])) = ST_X
    IN [copy EXCEPT !.rows = [i \in DOMAIN @ |->
            IF ToUpdate(@[i]) THEN [@[i] EXCEPT !.c[column_name] = ST_D] ELSE @[i]]]

process_preexisting_items(column_name) ==
    LET master_df == get_sheet(MS)
        target_df == get_sheet(TS)
        bad == \/ ~HasCol(master_df, column_name)
               \/ ~HasCol(master_df, KEYCOL)
               \/ ~HasCol(target_df, KEYCOL)
        original_master_df == PreexistingOriginal(master_df)
        master_df_copy == PreexistingUpdated(master_df, target_df, column_name)
        updated_count == Cardinality({i \in DOMAIN master_df_copy.rows :
                             master_df_copy.rows[i] # original_master_df.rows[i]})
    IN IF bad
       THEN /\ resp' = Response("process_preexisting", 500)
            /\ UNCHANGED <<sheets, processed_sheets, original_master_backup,
                           backup_metadata, processed_master, hist, fn>>
       ELSE /\ original_master_backup' = <<original_master_df>>
            /\ backup_metadata' =
                   <<[column_name |-> column_name,
                      updated_count |-> updated_count,
                      original_distribution |-> Distribution(original_master_df, column_name)]>>
            /\ processed_sheets' = update_sheet(processed_sheets, MS, master_df_copy)
            /\ hist' = <<get_processed_sheet(MS)>>
            /\ resp' = [op |-> "process_preexisting", code |-> 200,
                        rollback_available |-> "true"]
            /\ UNCHANGED <<sheets, processed_master, fn>>

\* HTTPException(404) is raised inside the try block and caught by
\* "except Exception", which answers 500
rollback_preexisting_changes ==
    IF original_master_backup = <<>>
    THEN /\ resp' = Response("rollback", 500)
         /\ UNCHANGED <<sheets, processed_sheets, original_master_backup,
                        backup_metadata, processed_master, hist, fn>>
    ELSE /\ processed_sheets' = update_sheet(processed_sheets, MS, original_master_backup[1])
         /\ original_master_backup' = <<>>
         /\ backup_metadata' = <<>>
         /\ resp' = [op |-> "rollback", code |-> 200, rollback_available |-> "false"]
         /\ UNCHANGED <<sheets, processed_master, hist, fn>>

get_rollback_status ==
    /\ resp' = [op |-> "rollback_status", code |-> 200,
                rollback_available |->
                    IF original_master_backup # <<>> THEN "true" ELSE "false"]
    /\ UNCHANGED <<sheets, processed_sheets, original_master_backup, backup_metadata,
                   processed_master, hist, fn>>

-----------------------------------------------------------------------------
(* Inputs: the sheets an upload can hold, drawn from small sets *)

KEY_A == <<"A">>
KEY_B == <<"B">>
KEY_b_sp == <<"b", " ">>

Row2(col1, v1, col2, v2) == (col1 :> v1) @@ (col2 :> v2)

\* frames as parsed from a file: row labels 0..n-1
Frames(cols, kinds, n) ==
    UNION {{[cols |-> cols,
             rows |-> [i \in 1..k |-> [idx |-> i - 1, c |-> f[i]]]] : f \in [1..k -> kinds]}
           : k \in 0..n}

\* a parsed text column holds at least one text cell unless the sheet is empty
ObjectTyped(df) ==
    \A col \in ColSet(df) :
        df.rows = <<>> \/ \E i \in DOMAIN df.rows : ~IsNa(df.rows[i].c[col])

MasterRowKinds ==
    {Row2(KEYCOL, KEY_A, LCOL, ST_X),
     Row2(KEYCOL, KEY_A, LCOL, NaN),
     Row2(KEYCOL, KEY_B, LCOL, ST_D),
     Row2(KEYCOL, KEY_b_sp, LCOL, ST_X),
     Row2(KEYCOL, NaN, LCOL, ST_X)}

\* a status cell with a trailing space, as a hand-edited sheet can hold
ST_X_sp == <<"X", " ">>

MasterSheets ==
    {df \in Frames(<<KEYCOL, LCOL>>,
                   MasterRowKinds \cup {Row2(KEYCOL, KEY_A, LCOL, ST_X_sp)},
                   MaxMasterRows) : ObjectTyped(df)}

TargetRowKinds == {(KEYCOL :> KEY_A), (KEYCOL :> KEY_b_sp), (KEYCOL :> NaN)}

TargetSheets ==
    {df \in Frames(<<KEYCOL>>, TargetRowKinds, MaxTargetRows) : ObjectTyped(df)}

LookupColumns == {LCOL, NOCOL}

KeyColumns == {KEYCOL, NOCOL}

-----------------------------------------------------------------------------
(* The file entry under requests *)

NoFn == [phase |-> "off"]

Init ==
    /\ sheets \in {(MS :> m) @@ (TS :> t) : m \in MasterSheets, t \in TargetSheets}
    /\ processed_sheets = (MS :> <<>>) @@ (TS :> <<>>)
    /\ original_master_backup = <<>>
    /\ backup_metadata = <<>>
    /\ processed_master = <<>>
    /\ resp = Response("upload", 200)
    /\ hist = <<>>
    /\ fn = NoFn

Clean == clean_data

Lookup ==
    \E key_column \in KeyColumns, lookup_column \in LookupColumns :
        perform_lookup(key_column, lookup_column)

ProcessUpdates == \E lookup_column \in {LCOL} : process_master_updates(lookup_column)

Preview == \E lookup_column \in {LCOL} : preview_processing_changes(lookup_column, KEYCOL)

ProcessPreexisting == \E column_name \in LookupColumns : process_preexisting_items(column_name)

Rollback == rollback_preexisting_changes

RollbackStatus == get_rollback_status

Next ==
    \/ Clean
    \/ Lookup
    \/ ProcessUpdates
    \/ Preview
    \/ ProcessPreexisting
    \/ Rollback
    \/ RollbackStatus

Spec == Init /\ [][Next]_vars

-----------------------------------------------------------------------------
(* The functions on their own: classify, apply and preview applied to      *)
(* drawn frames.  A Master is a parsed sheet or the result of cleaning one *)
(* (which keeps the labels of the rows it did not drop); a Target is a     *)
(* parsed sheet, with or without an ACTIVATION_STATUS column of its own,   *)
(* and with its key column under the expected header or under another one. *)

PNCOL == <<"P", "N">>

ST_N == <<"N">>

FnMasterRowKinds ==
    MasterRowKinds \cup {Row2(KEYCOL, KEY_A, LCOL, ST_N), Row2(KEYCOL, KEY_b_sp, LCOL, NaN)}

FnRawMasters ==
    {df \in Frames(<<KEYCOL, LCOL>>, FnMasterRowKinds, MaxFnMasterRows) : ObjectTyped(df)}

FnMasters == FnRawMasters \cup {clean_master_yazaki(df) : df \in FnRawMasters}

AnnotatedRowKinds ==
    {Row2(KEYCOL, KEY_A, ACTIVATION_STATUS, ST_X),
     Row2(KEYCOL, KEY_A, ACTIVATION_STATUS, ST_D),
     Row2(KEYCOL, KEY_A, ACTIVATION_STATUS, ST_0),
     Row2(KEYCOL, KEY_A, ACTIVATION_STATUS, NOT_FOUND),
     Row2(KEYCOL, KEY_B, ACTIVATION_STATUS, ST_D),
     Row2(KEYCOL, NaN, ACTIVATION_STATUS, MISSING_KEY)}

FnPlainTargets ==
    {df \in Frames(<<KEYCOL>>, TargetRowKinds, MaxFnTargetRows) : ObjectTyped(df)}

FnAnnotatedTargets ==
    {df \in Frames(<<KEYCOL, ACTIVATION_STATUS>>, AnnotatedRowKinds, MaxFnTargetRows) :
        ObjectTyped(df)}

FnTargets ==
    FnPlainTargets \cup FnAnnotatedTargets
        \cup {RenameCol(df, KEYCOL, PNCOL) : df \in FnAnnotatedTargets}

\* the lookup column a caller names: a Master column, an absent name, or
\* the name of the status column
FnLookupColumns == LookupColumns \cup {ACTIVATION_STATUS}

NoSheets == (MS :> [cols |-> <<>>, rows |-> <<>>]) @@ (TS :> [cols |-> <<>>, rows |-> <<>>])

FnInit ==
    /\ fn \in {[phase |-> "input", master |-> m, target |-> t, lookup_column |-> l,
                raw |-> <<>>, cls |-> <<>>, annotated |-> <<>>, upd |-> <<>>,
                prev |-> <<>>] :
                  m \in FnMasters, t \in FnTargets, l \in FnLookupColumns}
    /\ sheets = NoSheets
    /\ processed_sheets = (MS :> <<>>) @@ (TS :> <<>>)
    /\ original_master_backup = <<>>
    /\ backup_metadata = <<>>
    /\ processed_master = <<>>
    /\ resp = Response("none", 200)
    /\ hist = <<>>

FnStore == <<sheets, processed_sheets, original_master_backup, backup_metadata,
             processed_master, resp, hist>>

\* the cleaning step of clean_data on a parsed Master and a parsed Target;
\* raw keeps the sheets as they were parsed
FnClean ==
    /\ fn.phase = "input"
    /\ fn.raw = <<>>
    /\ fn.master \in FnRawMasters
    /\ fn.target \in FnPlainTargets
    /\ fn' = [fn EXCEPT !.raw = <<[master |-> fn.master, target |-> fn.target]>>,
                        !.master = clean_master_yazaki(fn.master),
                        !.target = prepare_target_sheet(clean_generic_sheet(fn.target))]
    /\ UNCHANGED FnStore

FnClassify ==
    /\ fn.phase = "input"
    /\ fn' = [fn EXCEPT !.phase = "classified",
                        !.cls = <<add_activation_status(fn.master, fn.target, KEYCOL,
                                                        fn.lookup_column)>>]
    /\ UNCHANGED FnStore

\* apply on the frame classify returned, or on a Target that came annotated
FnApply ==
    /\ fn.phase \in {"input", "classified"}
    /\ fn.phase = "classified" => fn.cls[1].err = "none"
    /\ LET annotated == IF fn.phase = "classified" THEN fn.cls[1].df ELSE fn.target
       IN fn' = [fn EXCEPT !.phase = "applied",
                           !.annotated = <<annotated>>,
                           !.upd = <<process_updates(fn.master, annotated,
                                                     fn.lookup_column, KEYCOL)>>]
    /\ UNCHANGED FnStore

\* preview on the inputs classify and apply were given
FnPreview ==
    /\ fn.phase = "applied"
    /\ fn.cls # <<>>
    /\ fn' = [fn EXCEPT !.phase = "previewed",
                        !.prev = <<generate_preview(fn.master, fn.target,
                                                    fn.lookup_column, KEYCOL)>>]
    /\ UNCHANGED FnStore

FnNext == FnClean \/ FnClassify \/ FnApply \/ FnPreview

SpecFn == FnInit /\ [][FnNext]_vars

-----------------------------------------------------------------------------
(* The cleaning functions on their own: clean_master_yazaki and            *)
(* clean_generic_sheet applied to a parsed sheet, then to their own result. *)

yazaki_pn_lower == <<"y", "a", "z", "a", "k", "i", "_", "p", "n">>
GCOL_pn == <<"p", " ", "n">>
GCOL_Q == <<"Q">>
KEY_nan == <<"n", "a", "n">>
CELL_quoted == <<"'", "a", " ", "+">>

CleanMasterRowKinds == FnMasterRowKinds \cup {Row2(KEYCOL, KEY_nan, LCOL, STR_nan)}

\* parsed Master sheets: the key column under its expected header, under a
\* header that normalises to it, or under another header
CleanMasterTables ==
    LET base == {df \in Frames(<<KEYCOL, LCOL>>, CleanMasterRowKinds, MaxFnMasterRows) :
                    ObjectTyped(df)}
    IN base \cup {RenameCol(df, KEYCOL, yazaki_pn_lower) : df \in base}
            \cup {RenameCol(df, KEYCOL, PNCOL) : df \in base}

GenericRowKinds ==
    {Row2(GCOL_pn, KEY_A, GCOL_Q, ST_X),
     Row2(GCOL_pn, CELL_quoted, GCOL_Q, NaN),
     Row2(GCOL_pn, NaN, GCOL_Q, STR_nan),
     Row2(GCOL_pn, KEY_b_sp, GCOL_Q, CELL_quoted)}

\* parsed sheets of one column and of two columns
CleanGenericTables ==
    {df \in Frames(<<GCOL_pn, GCOL_Q>>, GenericRowKinds, MaxFnTargetRows) : ObjectTyped(df)}
        \cup FnPlainTargets

CleanInit ==
    /\ fn \in {[phase |-> "parsed", kind |-> "master", t |-> t, once |-> <<>>,
                 twice |-> <<>>] : t \in CleanMasterTables}
             \cup {[phase |-> "parsed", kind |-> "generic", t |-> t, once |-> <<>>,
                    twice |-> <<>>] : t \in CleanGenericTables}
    /\ sheets = NoSheets
    /\ processed_sheets = (MS :> <<>>) @@ (TS :> <<>>)
    /\ original_master_backup = <<>>
    /\ backup_metadata = <<>>
    /\ processed_master = <<>>
    /\ resp = Response("none", 200)
    /\ hist = <<>>

CleanMasterOnce ==
    /\ fn.phase = "parsed" /\ fn.kind = "master"
    /\ fn' = [fn EXCEPT !.phase = "once", !.once = <<clean_master_yazaki(fn.t)>>]
    /\ UNCHANGED FnStore

CleanMasterTwice ==
    /\ fn.phase = "once" /\ fn.kind = "master"
    /\ fn' = [fn EXCEPT !.phase = "twice", !.twice = <<clean_master_yazaki(fn.once[1])>>]
    /\ UNCHANGED FnStore

CleanGenericOnce ==
    /\ fn.phase = "parsed" /\ fn.kind = "generic"
    /\ fn' = [fn EXCEPT !.phase = "once", !.once = <<clean_generic_sheet(fn.t)>>]
    /\ UNCHANGED FnStore

CleanGenericTwice ==
    /\ fn.phase = "once" /\ fn.kind = "generic"
    /\ fn' = [fn EXCEPT !.phase = "twice", !.twice = <<clean_generic_sheet(fn.once[1])>>]
    /\ UNCHANGED FnStore

CleanNext == CleanMasterOnce \/ CleanMasterTwice \/ CleanGenericOnce \/ CleanGenericTwice

SpecClean == CleanInit /\ [][CleanNext]_vars

-----------------------------------------------------------------------------
(* Requests in flight.  Every handler is an "async def" without an await   *)
(* between its first read of the store and its response, so the event loop *)
(* runs one handler at a time: a request enters when no handler is         *)
(* running, works on the frames get_processed_sheet copied for it, writes  *)
(* the store with update_sheet and returns.  The order in which pending    *)
(* requests enter is arbitrary.                                            *)

ConcOps == {"clean", "lookup", "process_updates", "process_preexisting", "rollback"}

ConcTargets == FnPlainTargets \cup FnAnnotatedTargets

\* the Target rows in the order process_updates handles them
OrderedRecords(target_df) ==
    IF ~HasCol(target_df, ACTIVATION_STATUS) THEN <<>>
    ELSE StatusRecords(target_df, ST_X) \o StatusRecords(target_df, ST_D)
            \o StatusRecords(target_df, ST_0) \o StatusRecords(target_df, NOT_FOUND)

\* updated_master after the first j records were handled
StageMaster(master_df, target_df, j) ==
    process_updates(master_df,
                    [target_df EXCEPT !.rows = SubSeq(OrderedRecords(target_df), 1, j)],
                    LCOL, KEYCOL).master

\* the working Master a whole run of the operation leaves, from the store
\* as the handler finds it
ExpectedMaster(op) ==
    LET wm == get_processed_sheet(MS)
        wt == get_processed_sheet(TS)
    IN CASE op = "clean" -> clean_master_yazaki(get_sheet(MS))
         [] op = "lookup" -> wm
         [] op = "process_updates" ->
               LET r == process_updates(wm, wt, LCOL, KEYCOL)
               IN IF r.err = "none" THEN r.master ELSE wm
         [] op = "process_preexisting" ->
               IF \/ ~HasCol(get_sheet(MS), LCOL) \/ ~HasCol(get_sheet(MS), KEYCOL)
                  \/ ~HasCol(get_sheet(TS), KEYCOL)
               THEN wm
               ELSE PreexistingUpdated(get_sheet(MS), get_sheet(TS), LCOL)
         [] op = "rollback" ->
               IF original_master_backup = <<>> THEN wm ELSE original_master_backup[1]

\* variant: the handler works on the stored frame itself
WorkStore_in_place(processed, df) == update_sheet(processed, MS, df)

\* the store while a handler works: get_processed_sheet handed out a copy
\* and process_updates copies again, so the stored frame is not touched
WorkStore(processed, df) == processed

ConcInit ==
    /\ sheets \in {(MS :> m) @@ (TS :> t) : m \in MasterSheets, t \in ConcTargets}
    /\ processed_sheets = (MS :> <<>>) @@ (TS :> <<>>)
    /\ original_master_backup = <<>>
    /\ backup_metadata = <<>>
    /\ processed_master = <<>>
    /\ resp = Response("upload", 200)
    /\ hist = <<>>
    /\ fn = [running |-> "none", stage |-> 0, base |-> <<>>, local |-> <<>>,
             after |-> <<>>, wholes |-> {sheets[MS]}, read |-> <<>>, served |-> 0]

\* the event loop starts the handler of a pending request
ConcEnter ==
    \E op \in ConcOps :
        /\ fn.running = "none"
        /\ fn.served < MaxRequests
        /\ Len(ExpectedMaster(op).rows) <= MaxMasterRows + MaxTargetRows
        /\ fn' = [fn EXCEPT !.running = op, !.stage = 0,
                            !.base = <<get_processed_sheet(MS)>>,
                            !.local = <<get_processed_sheet(MS)>>,
                            !.after = <<ExpectedMaster(op)>>,
                            !.served = @ + 1]
        /\ resp' = Response("running", 0)
        /\ UNCHANGED <<sheets, processed_sheets, original_master_backup, backup_metadata,
                       processed_master, hist>>

\* process_updates handles the next record on its copy
ConcWork ==
    /\ fn.running = "process_updates"
    /\ resp.op = "running"
    /\ fn.stage < Len(OrderedRecords(get_processed_sheet(TS)))
    /\ LET next == StageMaster(fn.base[1], get_processed_sheet(TS), fn.stage + 1)
       IN /\ fn' = [fn EXCEPT !.stage = @ + 1, !.local = <<next>>]
          /\ processed_sheets' = WorkStore(processed_sheets, next)
    /\ UNCHANGED <<sheets, original_master_backup, backup_metadata, processed_master,
                   resp, hist>>

\* the running handler writes the store and builds its response
ConcCommit ==
    /\ fn.running # "none"
    /\ resp.op = "running"
    /\ fn.running = "process_updates" =>
          fn.stage = Len(OrderedRecords(get_processed_sheet(TS)))
    /\ CASE fn.running = "clean" -> clean_data
         [] fn.running = "lookup" -> perform_lookup(KEYCOL, LCOL)
         [] fn.running = "process_updates" -> process_master_updates(LCOL)
         [] fn.running = "process_preexisting" -> process_preexisting_items(LCOL)
         [] fn.running = "rollback" -> rollback_preexisting_changes

\* the handler returns and the event loop is free again
ConcReturn ==
    /\ fn.running # "none"
    /\ resp.op # "running"
    /\ fn' = [fn EXCEPT !.running = "none", !.local = <<>>,
                        !.wholes = @ \cup {fn.after[1]}]
    /\ UNCHANGED FnStore

\* a download request reads the working Master
ConcRead ==
    /\ fn.running = "none"
    /\ fn.read # <<get_processed_sheet(MS)>>
    /\ fn' = [fn EXCEPT !.read = <<get_processed_sheet(MS)>>]
    /\ UNCHANGED FnStore

ConcNext == ConcEnter \/ ConcWork \/ ConcCommit \/ ConcReturn \/ ConcRead

SpecConc == ConcInit /\ [][ConcNext]_vars

-----------------------------------------------------------------------------
(* suggest_column on its own: an input name and a list of candidate column *)
(* names, as the /suggest-column request carries them.                      *)

NAME_abcd == <<"a", "_", "b", "_", "c", "_", "d">>
NAME_ab == <<"a", "b">>
NAME_a_b == <<"a", "_", "b">>
NAME_blank == <<" ">>
CAND_ABCD == <<"A", "_", "B", "_", "C", "_", "D">>
CAND_abccd == <<"a", "_", "b", "_", "c", "c", "_", "d">>
CAND_abcxxd == <<"a", "_", "b", "_", "c", "x", "x", "d">>
CAND_xabcd == <<"x", "a", "_", "b", "_", "c", "_", "d">>
CAND_zz == <<"z", "z">>
CAND_AB == <<"A", "B">>
NAME_aabcdd == <<"a", "a", "_", "b", "_", "c", "_", "d", "d">>
CAND_abcdd == <<"a", "_", "b", "_", "c", "_", "d", "d">>
CAND_aabcxxdd == <<"a", "a", "_", "b", "_", "c", "x", "x", "_", "d", "d">>

InputNames == {EMPTY, NAME_blank, NAME_ab, NAME_a_b, NAME_abcd, NAME_aabcdd}

Candidates ==
    {CAND_ABCD, CAND_abccd, CAND_abcxxd, CAND_xabcd, CAND_zz, CAND_AB,
     CAND_abcdd, CAND_aabcxxdd}

ColumnLists == UNION {[1..k -> Candidates] : k \in 0..MaxColumns}

SuggestInit ==
    /\ fn \in {[phase |-> "input", input_name |-> n, columns |-> cs, out |-> <<>>] :
                 n \in InputNames, cs \in ColumnLists}
    /\ sheets = NoSheets
    /\ processed_sheets = (MS :> <<>>) @@ (TS :> <<>>)
    /\ original_master_backup = <<>>
    /\ backup_metadata = <<>>
    /\ processed_master = <<>>
    /\ resp = Response("none", 200)
    /\ hist = <<>>

Suggest ==
    /\ fn.phase = "input"
    /\ fn' = [fn EXCEPT !.phase = "done",
                        !.out = <<suggest_column(fn.input_name, fn.columns)>>]
    /\ UNCHANGED FnStore

SuggestNext == Suggest

SpecSuggest == SuggestInit /\ [][SuggestNext]_vars

-----------------------------------------------------------------------------
(* The store under uploads: every upload calls save_uploaded_file at the   *)
(* current time, with a file that loads or one that does not; time passes  *)
(* between uploads.                                                         *)

StoreInit ==
    /\ fn = [files |-> <<>>, now |-> 0, uploads |-> 0, before |-> <<>>,
             evicted |-> {}, saved |-> FALSE]
    /\ sheets = NoSheets
    /\ processed_sheets = (MS :> <<>>) @@ (TS :> <<>>)
    /\ original_master_backup = <<>>
    /\ backup_metadata = <<>>
    /\ processed_master = <<>>
    /\ resp = Response("none", 200)
    /\ hist = <<>>

StoreUpload ==
    /\ fn.uploads < MaxUploads
    /\ \E loaded \in BOOLEAN :
          fn' = [fn EXCEPT !.files = save_uploaded_file(fn.files, fn.uploads + 1,
                                                        loaded, fn.now),
                           !.uploads = fn.uploads + 1,
                           !.before = fn.files,
                           !.evicted = files_to_remove(fn.files, fn.now),
                           !.saved = loaded]
    /\ UNCHANGED FnStore

StoreTick ==
    /\ fn.now + TickHours <= MaxClock
    /\ fn' = [fn EXCEPT !.now = fn.now + TickHours, !.saved = FALSE]
    /\ UNCHANGED FnStore

StoreNext == StoreUpload \/ StoreTick

SpecStore == StoreInit /\ [][StoreNext]_vars

-----------------------------------------------------------------------------
(* Column names under the cleaning functions: a parsed sheet has distinct   *)
(* headers, some of which differ only in case, surrounding spaces or space  *)
(* against underscore; each function is applied to it once.                 *)

HDR_st_sp == <<"s", "t", " ">>

HeaderNames == {KEYCOL, YAZAKI_PN_US, yazaki_pn_lower, LCOL, HDR_st_sp}

HeaderCells == {KEY_A, KEY_b_sp}

Headers ==
    {h \in UNION {[1..k -> HeaderNames] : k \in 1..MaxHeaders} : UniqueNames(h)}

HeaderTables ==
    UNION {UNION {{[cols |-> h,
                    rows |-> [i \in 1..k |->
                                [idx |-> i - 1,
                                 c |-> [col \in Range(h) |-> f[i][col]]]]] :
                      f \in [1..k -> [Range(h) -> HeaderCells]]}
                  : k \in 0..MaxHeaderRows}
           : h \in Headers}

ColsInit ==
    /\ fn \in {[phase |-> "parsed", kind |-> kind, t |-> t, out |-> <<>>,
                 err |-> "none"] :
                 kind \in {"master", "generic", "target"}, t \in HeaderTables}
    /\ sheets = NoSheets
    /\ processed_sheets = (MS :> <<>>) @@ (TS :> <<>>)
    /\ original_master_backup = <<>>
    /\ backup_metadata = <<>>
    /\ processed_master = <<>>
    /\ resp = Response("none", 200)
    /\ hist = <<>>

ColsCleanMaster ==
    /\ fn.phase = "parsed" /\ fn.kind = "master"
    /\ fn' = IF clean_master_yazaki_raises(fn.t)
             THEN [fn EXCEPT !.phase = "done", !.err = "raised"]
             ELSE [fn EXCEPT !.phase = "done", !.out = <<clean_master_yazaki(fn.t)>>]
    /\ UNCHANGED FnStore

ColsCleanGeneric ==
    /\ fn.phase = "parsed" /\ fn.kind = "generic"
    /\ fn' = IF clean_generic_sheet_raises(fn.t)
             THEN [fn EXCEPT !.phase = "done", !.err = "raised"]
             ELSE [fn EXCEPT !.phase = "done", !.out = <<clean_generic_sheet(fn.t)>>]
    /\ UNCHANGED FnStore

ColsPrepareTarget ==
    /\ fn.phase = "parsed" /\ fn.kind = "target"
    /\ fn' = [fn EXCEPT !.phase = "done", !.out = <<prepare_target_sheet(fn.t)>>]
    /\ UNCHANGED FnStore

ColsNext == ColsCleanMaster \/ ColsCleanGeneric \/ ColsPrepareTarget

SpecCols == ColsInit /\ [][ColsNext]_vars

-----------------------------------------------------------------------------
(* Properties *)

WorkingMaster == get_processed_sheet(MS)

Classified == fn.phase = "classified" /\ fn.cls[1].err = "none"

Applied == fn.phase = "applied" /\ fn.upd[1].err = "none"

FiveStatuses == {ST_X, ST_D, ST_0, NOT_FOUND, MISSING_KEY}

RECURSIVE SumOver(_, _)
SumOver(f, S) ==
    IF S = {} THEN 0
    ELSE LET x == CHOOSE x \in S : TRUE
         IN (IF x \in DOMAIN f THEN f[x] ELSE 0) + SumOver(f, S \ {x})

\* C1: after classify every Target row carries a status among X, D, 0,
\* NOT_FOUND, MISSING_KEY, and the counts of these five buckets sum to the
\* number of Target rows.
C1_StatusPartition ==
    Classified =>
        LET df == fn.cls[1].df
        IN /\ \A i \in DOMAIN df.rows : df.rows[i].c[ACTIVATION_STATUS] \in FiveStatuses
           /\ SumOver(fn.cls[1].stats.mapping_results, FiveStatuses) = Len(df.rows)

\* C2: the numbers preview reports as to-update, to-insert and duplicate
\* equal the numbers apply updates, inserts and flags on the same inputs.
C2_PreviewApplyParity ==
    fn.phase = "previewed" =>
        /\ fn.prev[1].err = "none"
        /\ fn.prev[1].statistics.records_to_update = fn.upd[1].stats.updated_count
        /\ fn.prev[1].statistics.records_to_insert = fn.upd[1].stats.inserted_count
        /\ fn.prev[1].statistics.duplicates_found = fn.upd[1].stats.duplicates_count

\* C3: process-preexisting followed by rollback-preexisting leaves the
\* working Master equal to the working Master the store returned right
\* before process-preexisting.
C3_RollbackExact ==
    [][(/\ resp.op = "process_preexisting" /\ resp.code = 200
        /\ resp'.op = "rollback" /\ resp'.code = 200)
       => WorkingMaster' = hist[1]]_vars

StoredState == <<sheets, processed_sheets, original_master_backup, backup_metadata,
                 processed_master>>

\* C4: a rollback requested while no snapshot is held fails with not-found
\* (404) and changes no stored state.
C4_RollbackWithoutSnapshot ==
    [][(original_master_backup = <<>> /\ resp'.op = "rollback")
       => (resp'.code = 404 /\ UNCHANGED StoredState)]_vars

\* C5: one snapshot at a time: a successful rollback restores the Master as
\* it was before the last snapshot, clears the slot and reports rollback
\* unavailable, and with the slot empty a rollback does not succeed.
C5_SingleLevelUndo ==
    [][(resp'.op = "rollback")
       => IF original_master_backup = <<>>
          THEN resp'.code # 200
          ELSE /\ resp'.code = 200
               /\ WorkingMaster' = hist[1]
               /\ original_master_backup' = <<>>
               /\ resp'.rollback_available = "false"]_vars

\* C6: a process-updates request that fails leaves every stored table as it
\* was; the stored Master changes only when the run succeeded and its
\* returned copy is committed.
C6_ApplyOnCopy ==
    [][(resp'.op = "process_updates")
       => IF resp'.code = 200
          THEN /\ processed_sheets'[MS] = processed_master'
               /\ processed_sheets'[TS] = processed_sheets[TS]
               /\ UNCHANGED <<sheets, original_master_backup, backup_metadata>>
          ELSE UNCHANGED StoredState]_vars

\* C6 witness: a failed process-updates (Target without ACTIVATION_STATUS)
\* on a file whose Master had been cleaned
C6_Witness ==
    /\ resp.op = "process_updates" /\ resp.code = 404
    /\ processed_sheets[MS] # <<>>
    /\ ~HasCol(get_processed_sheet(TS), ACTIVATION_STATUS)

Prefix(s, k) == SubSeq(s, 1, k)

\* C7: the NOT_FOUND rows each add one row to Master and leave every row
\* that was there in place: the row count after apply is the count before
\* plus inserted_count.
C7_InsertKeepsRows ==
    Applied =>
        LET before == fn.upd[1].trace[3]
            after == fn.upd[1].trace[4]
            n == Len(StatusRecords(fn.annotated[1], NOT_FOUND))
        IN /\ Len(after.rows) = Len(before.rows) + n
           /\ \A i \in DOMAIN before.rows : after.rows[i] = before.rows[i]
           /\ Len(fn.upd[1].master.rows)
                = Len(fn.master.rows) + fn.upd[1].stats.inserted_count

\* C8: each status-0 row whose key is in the working Master copy leaves
\* Master alone and appends one duplicate record (first matching Master
\* row, Target row); any other status-0 row inserts exactly one new Master
\* row; duplicates_count is the length of the duplicates list.
C8_ZeroStatus ==
    Applied =>
        LET zs == StatusRecords(fn.annotated[1], ST_0)
            before == fn.upd[1].trace[2]
            At(k) == _handle_zero_status(before, Prefix(zs, k), KEYCOL)
        IN /\ At(Len(zs)).master = fn.upd[1].trace[3]
           /\ fn.upd[1].stats.duplicates_count = Len(fn.upd[1].stats.duplicates)
           /\ fn.upd[1].stats.duplicates = At(Len(zs)).duplicates
           /\ \A k \in 1..Len(zs) :
                LET p == At(k - 1)
                    q == At(k)
                    m == MatchPositions(p.master, KEYCOL, zs[k].c[KEYCOL])
                IN IF m # {}
                   THEN /\ q.master = p.master
                        /\ q.count = p.count
                        /\ q.duplicates =
                             Append(p.duplicates,
                                    [YAZAKI_PN |-> zs[k].c[KEYCOL],
                                     Master_Record |-> p.master.rows[Min(m)].c,
                                     Target_Record |-> zs[k].c])
                   ELSE /\ Len(q.master.rows) = Len(p.master.rows) + 1
                        /\ \A i \in DOMAIN p.master.rows :
                              q.master.rows[i] = p.master.rows[i]
                        /\ q.count = p.count + 1
                        /\ q.duplicates = p.duplicates

WithoutMissingKey(target_df) ==
    [target_df EXCEPT !.rows =
        SelectSeq(@, LAMBDA r : r.c[ACTIVATION_STATUS] # MISSING_KEY)]

\* C10: rows with status MISSING_KEY take part in no branch of apply: the
\* Master and every count are what apply yields on the Target without
\* them, and no duplicate record holds such a row.
C10_MissingKeyExcluded ==
    Applied =>
        LET without == process_updates(fn.master, WithoutMissingKey(fn.annotated[1]),
                                       fn.lookup_column, KEYCOL)
            dups == fn.upd[1].stats.duplicates
        IN /\ fn.upd[1].master = without.master
           /\ fn.upd[1].stats = without.stats
           /\ \A i \in DOMAIN dups :
                 dups[i].Target_Record[ACTIVATION_STATUS] # MISSING_KEY

\* C10 witness: apply ran on a Target holding a MISSING_KEY row next to a
\* row of another status that changed Master
C10_Witness ==
    /\ Applied
    /\ Len(StatusRecords(fn.annotated[1], MISSING_KEY)) >= 1
    /\ fn.upd[1].master # fn.master

\* C11: classify gives MISSING_KEY to every Target row whose key cell is
\* null or the empty string, so no such row is classified NOT_FOUND.
C11_EmptyKeyMissing ==
    Classified =>
        LET df == fn.cls[1].df
        IN \A i \in DOMAIN df.rows :
              df.rows[i].c[KEYCOL] \in {NaN, EMPTY} =>
                 df.rows[i].c[ACTIVATION_STATUS] = MISSING_KEY

\* positions of the Master rows holding key k, as drop_duplicates compares
\* them
KeyPositions(master_df, k) == {j \in DOMAIN master_df.rows : master_df.rows[j].c[KEYCOL] = k}

\* C12: classify gives status 0 to every Target row whose key is in the
\* deduplicated Master index with a looked-up value that is null or the
\* empty string.
C12_EmptyValueZero ==
    Classified =>
        LET df == fn.cls[1].df
        IN \A i \in DOMAIN df.rows :
              LET k == df.rows[i].c[KEYCOL]
                  m == KeyPositions(fn.master, k)
              IN (~IsNa(k) /\ m # {}
                    /\ fn.master.rows[Min(m)].c[fn.lookup_column] \in {NaN, EMPTY})
                 => df.rows[i].c[ACTIVATION_STATUS] = ST_0

\* C14: classify deduplicates Master by key keeping the first occurrence:
\* the index holds each key once, a Target row found in it is classified
\* by the lookup value of the first Master row with its key, and
\* len(master) - duplicates_removed = lookup_dict_size.
C14_DedupKeepsFirst ==
    Classified =>
        LET df == fn.cls[1].df
            stats == fn.cls[1].stats
            keys == {fn.master.rows[j].c[KEYCOL] : j \in DOMAIN fn.master.rows}
        IN /\ stats.master_records = Len(fn.master.rows)
           /\ stats.master_records - stats.duplicates_removed = stats.lookup_dict_size
           /\ stats.lookup_dict_size = Cardinality(keys)
           /\ stats.master_unique_records = stats.lookup_dict_size
           /\ \A i \in DOMAIN df.rows :
                 LET k == df.rows[i].c[KEYCOL]
                     m == KeyPositions(fn.master, k)
                 IN (~IsNa(k) /\ m # {}) =>
                       LET v == fn.master.rows[Min(m)].c[fn.lookup_column]
                       IN df.rows[i].c[ACTIVATION_STATUS] = IF IsNa(v) THEN ST_0 ELSE v

\* C14 witness: classify ran on a Master holding one key twice with two
\* different lookup values, and a Target row carries that key
C14_Witness ==
    /\ Classified
    /\ fn.cls[1].stats.duplicates_removed >= 1
    /\ \E i \in DOMAIN fn.target.rows :
          LET m == KeyPositions(fn.master, fn.target.rows[i].c[KEYCOL])
          IN /\ ~IsNa(fn.target.rows[i].c[KEYCOL])
             /\ \E a, b \in m :
                   fn.master.rows[a].c[fn.lookup_column]
                      # fn.master.rows[b].c[fn.lookup_column]

\* positions of the parsed Master rows whose key is the parsed Target key k
\* up to letter case and non-alphanumeric characters
SameKeyPositions(master_df, k) ==
    {j \in DOMAIN master_df.rows :
        /\ CleanKey(k) # EMPTY
        /\ CleanKey(master_df.rows[j].c[KEYCOL]) = CleanKey(k)}

\* C13: a parsed Target key that equals a parsed Master key up to letter
\* case and non-alphanumeric characters is the same key after cleaning: with
\* an empty Master lookup value, clean -> classify -> apply gives the row
\* status 0, inserts no Master row and records one duplicate per such row.
C13_EndToEndKeyMatching ==
    (Applied /\ fn.raw # <<>> /\ fn.cls # <<>>) =>
        LET rm == fn.raw[1].master
            rt == fn.raw[1].target
            Hit(i) == LET m == SameKeyPositions(rm, rt.rows[i].c[KEYCOL])
                      IN m # {} /\ IsNa(rm.rows[Min(m)].c[fn.lookup_column])
            hits == {i \in DOMAIN rt.rows : Hit(i)}
        IN /\ \A i \in hits : fn.cls[1].df.rows[i].c[ACTIVATION_STATUS] = ST_0
           /\ (hits # {} /\ hits = DOMAIN rt.rows) =>
                 /\ fn.upd[1].stats.inserted_count = 0
                 /\ fn.upd[1].stats.duplicates_count = Cardinality(hits)
                 /\ Len(fn.upd[1].master.rows) = Len(fn.master.rows)

\* C15: clean_master applied to its own result returns that result, and
\* every key of a cleaned Master is a non-empty string over A-Z and 0-9.
C15_CleanMasterIdempotent ==
    (fn.kind = "master" /\ fn.phase = "twice") =>
        /\ fn.twice[1] = fn.once[1]
        /\ HasCol(fn.once[1], KEYCOL) =>
              \A i \in DOMAIN fn.once[1].rows :
                 LET k == fn.once[1].rows[i].c[KEYCOL]
                 IN k # EMPTY /\ Range(k) \subseteq (Range(UpperLetters) \cup Digits)

\* C15 witness: a parsed Master whose cleaning renamed the key header,
\* rewrote a key and dropped a row, cleaned a second time
C15_Witness ==
    /\ fn.kind = "master" /\ fn.phase = "twice"
    /\ fn.once[1].cols # fn.t.cols
    /\ fn.once[1].rows # <<>>
    /\ Len(fn.once[1].rows) < Len(fn.t.rows)
    /\ \E i \in DOMAIN fn.once[1].rows :
          \A j \in DOMAIN fn.t.rows : fn.once[1].rows[i].c[KEYCOL] # fn.t.rows[j].c[fn.t.cols[1]]

\* C16: clean_generic applied to its own result returns that result: same
\* column order, same cell values.
C16_CleanGenericIdempotent ==
    (fn.kind = "generic" /\ fn.phase = "twice") => fn.twice[1] = fn.once[1]

\* the row new_record is written to by master_df.loc[len(master_df)]
RowAt(df, label) == df.rows[CHOOSE i \in DOMAIN df.rows : df.rows[i].idx = label].c

\* a Master row built from a Target row: Master's columns, the Target's
\* value where the Target row has the column, '' elsewhere and for
\* ACTIVATION_STATUS
BuiltFrom(row, record, master_df) ==
    /\ DOMAIN row = ColSet(master_df)
    /\ \A col \in ColSet(master_df) :
          row[col] = IF col \in DOMAIN record /\ col # ACTIVATION_STATUS
                     THEN record[col] ELSE EMPTY

\* C17: every Master row apply inserts (for a NOT_FOUND row, or for a
\* status-0 row without a match) has exactly Master's columns, the Target
\* row's values in the shared columns, '' in the others, and never the
\* Target row's ACTIVATION_STATUS value.
C17_NewRowConstruction ==
    Applied =>
        LET zs == StatusRecords(fn.annotated[1], ST_0)
            ns == StatusRecords(fn.annotated[1], NOT_FOUND)
            Z(k) == _handle_zero_status(fn.upd[1].trace[2], Prefix(zs, k), KEYCOL)
            N(k) == _insert_new_records(fn.upd[1].trace[3], Prefix(ns, k), KEYCOL)
        IN /\ Z(Len(zs)).master = fn.upd[1].trace[3]
           /\ N(Len(ns)).master = fn.upd[1].trace[4]
           /\ fn.upd[1].trace[4] = fn.upd[1].master
           /\ \A k \in 1..Len(zs) :
                 LET p == Z(k - 1).master
                     q == Z(k).master
                 IN MatchPositions(p, KEYCOL, zs[k].c[KEYCOL]) = {} =>
                       /\ q.cols = p.cols
                       /\ BuiltFrom(RowAt(q, Len(p.rows)), zs[k].c, p)
           /\ \A k \in 1..Len(ns) :
                 LET p == N(k - 1).master
                     q == N(k).master
                 IN /\ q.cols = p.cols
                    /\ BuiltFrom(RowAt(q, Len(p.rows)), ns[k].c, p)

\* C17 witness: a NOT_FOUND row was inserted into a Master that has an
\* ACTIVATION_STATUS column and a column the Target row lacks
C17_Witness ==
    /\ Applied
    /\ Len(StatusRecords(fn.annotated[1], NOT_FOUND)) >= 1
    /\ HasCol(fn.upd[1].trace[3], ACTIVATION_STATUS)
    /\ HasCol(fn.upd[1].trace[3], LCOL)
    /\ fn.upd[1].stats.inserted_count >= 1

\* C18: a lookup on a file whose stored Target already carries the status
\* column succeeds and leaves the stored Target with exactly one
\* ACTIVATION_STATUS column, holding the statuses this call computes.
C18_RerunLookup ==
    [][(/\ perform_lookup(KEYCOL, LCOL)
        /\ HasCol(get_processed_sheet(TS), ACTIVATION_STATUS)
        /\ HasCol(get_processed_sheet(MS), KEYCOL)
        /\ HasCol(get_processed_sheet(MS), LCOL))
       => /\ resp'.code = 200
          /\ LET t == processed_sheets'[TS][1]
                 lookup_dict == LookupDict(DropDuplicates(get_processed_sheet(MS), KEYCOL),
                                           KEYCOL, LCOL)
             IN /\ Cardinality({i \in DOMAIN t.cols : t.cols[i] = ACTIVATION_STATUS}) = 1
                /\ \A i \in DOMAIN t.rows :
                      t.rows[i].c[ACTIVATION_STATUS]
                         = get_status(lookup_dict, t.rows[i].c[KEYCOL])]_vars

\* C19: a lookup naming a key column or lookup column that Master lacks,
\* or a key column that Target lacks, is answered with a caller error
\* (4xx) and leaves every stored table as it was.
C19_AbsentColumn ==
    [][\A key_column \in KeyColumns, lookup_column \in LookupColumns :
          (/\ perform_lookup(key_column, lookup_column)
           /\ \/ ~HasCol(get_processed_sheet(MS), key_column)
              \/ ~HasCol(get_processed_sheet(MS), lookup_column)
              \/ ~HasCol(get_processed_sheet(TS), key_column))
          => (resp'.code \in 400..499 /\ UNCHANGED StoredState)]_vars

\* C20: suggest_column returns a pair (match, confidence) for every input
\* name and candidate list, the empty list included, with confidence in
\* [0,1]; for an empty or blank input name the pair is the first candidate,
\* or '' when there is none, with confidence 0.
C20_SuggestTotal ==
    fn.phase = "done" =>
        LET out == fn.out[1]
        IN /\ DOMAIN out = {"match", "confidence"}
           /\ out.confidence.d > 0
           /\ 0 <= out.confidence.n /\ out.confidence.n <= out.confidence.d
           /\ StrStrip(fn.input_name) = EMPTY =>
                 /\ out.match = IF fn.columns # <<>> THEN fn.columns[1] ELSE EMPTY
                 /\ out.confidence.n = 0

\* C20 witness: a blank input name was answered from a non-empty list
C20_Witness ==
    /\ fn.phase = "done"
    /\ fn.input_name = NAME_blank
    /\ fn.columns # <<>>
    /\ fn.out[1].match = fn.columns[1]

\* similarity of a candidate to the input name, as suggest_column scores it
Similarity(input_name, col) == ratio(StrLower(input_name), StrLower(col))

\* the candidates that start with the first three segments of the input
\* name and end with its last segment, compared in upper case
StructuralCandidates(input_name, columns) ==
    LET parts == SplitOn(input_name, "_")
    IN IF Len(parts) < 4 THEN {}
       ELSE {i \in DOMAIN columns :
               /\ StartsWith(StrUpper(columns[i]), StrUpper(JoinWith(SubSeq(parts, 1, 3), "_")))
               /\ EndsWith(StrUpper(columns[i]), StrUpper(parts[Len(parts)]))}

\* the structural candidates whose similarity reaches 0.90
AcceptedCandidates(input_name, columns) ==
    {i \in StructuralCandidates(input_name, columns) :
        ScoreAtLeast90(Similarity(input_name, columns[i]))}

\* C21: when no structural candidate is accepted and the candidate list is
\* not empty, suggest_column returns a member of the list whose similarity
\* to the input name is maximal over the list, also when every candidate
\* has similarity 0.
C21_FallbackBestMember ==
    (/\ fn.phase = "done"
     /\ fn.columns # <<>>
     /\ AcceptedCandidates(fn.input_name, fn.columns) = {})
    => /\ \E i \in DOMAIN fn.columns : fn.out[1].match = fn.columns[i]
       /\ \A i \in DOMAIN fn.columns :
             ~ScoreGt(Similarity(fn.input_name, fn.columns[i]),
                      Similarity(fn.input_name, fn.out[1].match))

\* C22: when some structural candidate has similarity >= 0.90,
\* suggest_column returns a structural candidate of similarity >= 0.90 that
\* no other such candidate exceeds, whatever the similarity of the
\* non-structural candidates.
C22_StructuralPreferred ==
    (fn.phase = "done" /\ AcceptedCandidates(fn.input_name, fn.columns) # {})
    => LET acc == AcceptedCandidates(fn.input_name, fn.columns)
       IN /\ \E i \in acc : fn.out[1].match = fn.columns[i]
          /\ fn.out[1].confidence = Similarity(fn.input_name, fn.out[1].match)
          /\ ScoreAtLeast90(fn.out[1].confidence)
          /\ \A i \in acc :
                ~ScoreGt(Similarity(fn.input_name, fn.columns[i]), fn.out[1].confidence)

\* C22 witness: the accepted structural candidate was returned although a
\* non-structural candidate of the list is strictly more similar
C22_Witness ==
    /\ fn.phase = "done"
    /\ AcceptedCandidates(fn.input_name, fn.columns) # {}
    /\ \E i \in DOMAIN fn.columns :
          /\ i \notin StructuralCandidates(fn.input_name, fn.columns)
          /\ ScoreGt(Similarity(fn.input_name, fn.columns[i]), fn.out[1].confidence)

UnmatchedD ==
    LET ds == StatusRecords(fn.annotated[1], ST_D)
    IN {k \in DOMAIN ds :
          MatchPositions(_update_existing_records(fn.upd[1].trace[1], Prefix(ds, k - 1),
                                                  fn.lookup_column, KEYCOL).master,
                         KEYCOL, ds[k].c[KEYCOL]) = {}}

\* C24: a status-D row whose key matches no Master row is a silent no-op:
\* apply raises nothing, the row leaves Master and updated_count as they
\* are, and the rows after it are still handled.
C24_UnmatchedDNoOp ==
    (fn.phase = "applied" /\ HasCol(fn.annotated[1], ACTIVATION_STATUS)
       /\ HasCol(fn.annotated[1], KEYCOL) /\ HasCol(fn.master, KEYCOL)) =>
        LET ds == StatusRecords(fn.annotated[1], ST_D)
            before == fn.upd[1].trace[1]
            At(k) == _update_existing_records(before, Prefix(ds, k), fn.lookup_column, KEYCOL)
        IN /\ fn.upd[1].err = "none"
           /\ At(Len(ds)).master = fn.upd[1].trace[2]
           /\ fn.upd[1].stats.updated_count = Len(ds) - Cardinality(UnmatchedD)
           /\ Len(fn.upd[1].trace) = 4
           /\ \A k \in UnmatchedD : At(k).master = At(k - 1).master

\* C24 witness: apply handled a status-D row without a match and, after
\* it, a status-D row that updated Master
C24_Witness ==
    /\ Applied
    /\ UnmatchedD # {}
    /\ fn.upd[1].stats.updated_count >= 1
    /\ \E k \in UnmatchedD :
          \E j \in DOMAIN StatusRecords(fn.annotated[1], ST_D) : j > k /\ j \notin UnmatchedD

\* C25: the outcome of apply does not depend on the order of the status
\* groups: taken in any order, the groups X, D, 0, NOT_FOUND leave the same
\* Master rows and the same updated, inserted, duplicates and skipped counts
\* as the fixed order.
C25_OrderIndependent ==
    Applied =>
        \A order \in StatusOrders :
            LET r == ProcessInOrder(fn.master, fn.annotated[1], fn.lookup_column, KEYCOL,
                                    order)
            IN /\ r.err = "none"
               /\ r.master.rows = fn.upd[1].master.rows
               /\ r.stats.updated_count = fn.upd[1].stats.updated_count
               /\ r.stats.inserted_count = fn.upd[1].stats.inserted_count
               /\ r.stats.duplicates_count = fn.upd[1].stats.duplicates_count
               /\ r.stats.skipped_count = fn.upd[1].stats.skipped_count

(* C26: once save_uploaded_file has returned, the store holds at most       *)
(* max_files files, and every file the call evicted was older than the      *)
(* maximum age or among the oldest files beyond the bound.                  *)
C26_StoreBounded ==
    fn.saved =>
        /\ Len(fn.files) <= max_files
        /\ \A p \in fn.evicted :
              \/ fn.now - fn.before[p].upload_time > max_age_hours
              \/ \E i \in 1..(Len(fn.before) - max_files) :
                    SortedByUploadTime(fn.before)[i] = p

(* C27: the frame that clean_master_yazaki, clean_generic_sheet or          *)
(* prepare_target_sheet returns for a sheet with distinct column names has  *)
(* distinct column names.                                                   *)
C27_ColumnNamesUnique ==
    (fn.phase = "done" /\ fn.out # <<>>) => UniqueNames(fn.out[1].cols)

\* no key occurs on two rows of the frame
UniqueKeys(master_df) ==
    \A i, j \in DOMAIN master_df.rows :
        master_df.rows[i].c[KEYCOL] = master_df.rows[j].c[KEYCOL] => i = j

\* C28: apply preserves Master key uniqueness: when no key occurs on two
\* rows of the Master that apply receives, no key occurs on two rows of the
\* Master it returns.
C28_KeyUniquenessPreserved ==
    (Applied /\ HasCol(fn.master, KEYCOL) /\ UniqueKeys(fn.master)) =>
        UniqueKeys(fn.upd[1].master)

\* C29: whenever the file entry holds a processed_master, it equals the
\* working Master stored for the master sheet.
C29_ProcessedMasterCurrent ==
    processed_master # <<>> => processed_master[1] = WorkingMaster

\* C30: process-preexisting conserves the status distribution: after the
\* request the count of X is the original count of X minus updated_count,
\* the count of D is the original count of D plus updated_count, and every
\* Master row whose lookup value changed has a key absent from Target and
\* had the lookup value X.
C30_DistributionConserved ==
    (resp.op = "process_preexisting" /\ resp.code = 200) =>
        LET meta == backup_metadata[1]
            read == get_sheet(MS)
            new_distribution == Distribution(WorkingMaster, meta.column_name)
            target_keys == {get_sheet(TS).rows[i].c[KEYCOL] : i \in DOMAIN get_sheet(TS).rows}
        IN /\ new_distribution.X = meta.original_distribution.X - meta.updated_count
           /\ new_distribution.D = meta.original_distribution.D + meta.updated_count
           /\ \A i \in DOMAIN read.rows :
                 WorkingMaster.rows[i].c[meta.column_name] # read.rows[i].c[meta.column_name] =>
                     /\ read.rows[i].c[KEYCOL] \notin target_keys
                     /\ read.rows[i].c[meta.column_name] = ST_X

====
